---- MODULE Spec2Model ----
(***************************************************************************)
(* Model of build.py: the one-shot pipeline                                *)
(*   yf.download -> close table -> dropna -> compute_metrics ->            *)
(*   build_dashboard_html -> write index.html                              *)
(*                                                                         *)
(* Numbers.  A float is a record [k, n, d]: k = "num" is the rational n/d  *)
(* (d > 0, lowest terms), k = "nan" / "inf" / "ninf" are the IEEE special  *)
(* values numpy produces.  Prices are 100 * 2^j (or zero or negative), so  *)
(* every ratio of positive prices is a power of two and its natural        *)
(* logarithm is an integer multiple of ln 2: a log return is stored as the *)
(* float n/1 in units of ln 2, and exp of it is the rational 2^n.          *)
(* Rounding error of binary floating point is not modelled.                *)
(***************************************************************************)
EXTENDS Integers, Sequences, FiniteSets

VARIABLES pc, df, px, rets, cum_df, window, total_return_1y, ann_vol_1y,
          html, index_html, err, stages

vars == <<pc, df, px, rets, cum_df, window, total_return_1y, ann_vol_1y,
          html, index_html, err, stages>>

(* ---------------------------------------------------------------- bounds *)
\* number of calendar dates the provider's answer spans
MaxDates == 3
\* number of calendar dates of the answers that vary only which bars exist
MaxCalendar == 4
\* how many rows beyond 252 the long histories reach
MaxBeyondYear == 2
\* how many tickers of the universe a run is checked with
NumTickers == 2

(* ------------------------------------------------------------- constants *)
\* build.py:13, the universe
TICKERS == <<"AAPL", "MSFT", "GOOGL", "AMZN", "META", "NVDA", "TSLA", "AVGO">>
\* build.py:63 and :70, the trading-year day count
TRADING_DAYS == 252

\* the `tickers` argument of fetch_daily_closes, the columns of every frame:
\* main passes TICKERS, of which the first NumTickers are kept
tickers == {TICKERS[i] : i \in 1 .. NumTickers}

Dates == 1 .. MaxDates

(* ----------------------------------------------------------------- floats *)
RECURSIVE GCD(_, _)
GCD(a, b) == IF b = 0 THEN a ELSE GCD(b, a % b)

Abs(x) == IF x < 0 THEN -x ELSE x

NaN    == [k |-> "nan",  n |-> 0, d |-> 1]
Inf    == [k |-> "inf",  n |-> 0, d |-> 1]
NegInf == [k |-> "ninf", n |-> 0, d |-> 1]

\* the float n/d, d # 0, in lowest terms with a positive denominator
Rat(n, d) ==
    LET g == GCD(Abs(n), Abs(d))
        s == IF d < 0 THEN -1 ELSE 1
    IN  [k |-> "num", n |-> (s * n) \div g, d |-> (s * d) \div g]

Num(n) == Rat(n, 1)

IsNum(a) == a.k = "num"
IsNaN(a) == a.k = "nan"

\* a / b as numpy divides float64 (x/0 is +-inf, 0/0 is nan)
FDiv(a, b) ==
    CASE IsNaN(a) \/ IsNaN(b) -> NaN
      [] ~IsNum(a) /\ ~IsNum(b) -> NaN
      [] ~IsNum(a) ->
            IF b.n >= 0 THEN a ELSE (IF a.k = "inf" THEN NegInf ELSE Inf)
      [] ~IsNum(b) -> Num(0)
      [] b.n = 0 ->
            IF a.n > 0 THEN Inf ELSE IF a.n < 0 THEN NegInf ELSE NaN
      [] OTHER -> Rat(a.n * b.d, a.d * b.n)

\* a + b
FAdd(a, b) ==
    CASE IsNaN(a) \/ IsNaN(b) -> NaN
      [] ~IsNum(a) /\ ~IsNum(b) -> IF a.k = b.k THEN a ELSE NaN
      [] ~IsNum(a) -> a
      [] ~IsNum(b) -> b
      [] OTHER -> Rat(a.n * b.d + b.n * a.d, a.d * b.d)

\* a * c for a nonzero integer c (c > 0 wherever a may be infinite)
FScale(a, c) == IF IsNum(a) THEN Rat(a.n * c, a.d) ELSE a

\* log2 of the positive rational n/d, a power of two
RECURSIVE Log2Rat(_, _)
Log2Rat(n, d) ==
    IF n = d THEN 0
    ELSE IF n > d THEN 1 + Log2Rat(n, 2 * d)
    ELSE Log2Rat(2 * n, d) - 1

\* np.log, in units of ln 2: nan below zero, -inf at zero
FLog(a) ==
    CASE IsNaN(a) -> NaN
      [] a.k = "inf" -> Inf
      [] a.k = "ninf" -> NaN
      [] a.n < 0 -> NaN
      [] a.n = 0 -> NegInf
      [] OTHER -> Num(Log2Rat(a.n, a.d))

RECURSIVE Pow2(_)
Pow2(e) == IF e = 0 THEN 1 ELSE 2 * Pow2(e - 1)

\* np.exp of a value in units of ln 2 (an integer multiple of ln 2)
FExp(a) ==
    CASE IsNaN(a) -> NaN
      [] a.k = "inf" -> Inf
      [] a.k = "ninf" -> Num(0)
      [] a.n >= 0 -> Rat(Pow2(a.n), 1)
      [] OTHER -> Rat(1, Pow2(-a.n))

(* ------------------------------------------------------------ data frames *)
\* A frame is a sequence of rows [date |-> d, row |-> [t \in tickers |-> float]]
\* in index order.

\* the closes the provider's answers are drawn from: every positive close is
\* 100 * 2^j; the first ticker ranges over all of them, the second over
\* fewer, any further ticker stays at 100
PriceSet(t) ==
    IF t = TICKERS[1] THEN {-100, 0, 100, 200, 400}
    ELSE IF t = TICKERS[2] THEN {-100, 100}
    ELSE {100}
\* a cell of the downloaded table: a missing bar (for the first two
\* tickers), or a close of any sign
Cells(t) ==
    (IF t \in {TICKERS[1], TICKERS[2]} THEN {NaN} ELSE {})
        \cup {Num(p) : p \in PriceSet(t)}
AllCells == UNION {Cells(t) : t \in tickers}
RowSet == {r \in [tickers -> AllCells] : \A t \in tickers : r[t] \in Cells(t)}
\* calendars only: for every ticker a bar is there (at 100) or missing
CalendarRowSet == [tickers -> {NaN, Num(100)}]
\* a long history: the first ticker cycles through c, the others stay flat
Cycles == {<<100, 100, 100>>, <<100, 200, 400>>, <<400, 200, 100>>, <<200, 100, 200>>}
LongRow(c, i) ==
    [t \in tickers |-> IF t = TICKERS[1] THEN Num(c[((i - 1) % 3) + 1]) ELSE Num(100)]

\* dropna(how="all") in place of how="any": a row goes only when every cell
\* of it is missing
DropNaAll(f) ==
    LET Keep(r) == \E t \in tickers : ~IsNaN(r.row[t])
    IN  SelectSeq(f, Keep)

\* DataFrame.dropna(how="any"): keep the rows without a missing cell
DropNa(f) ==
    LET Keep(r) == \A t \in tickers : ~IsNaN(r.row[t])
    IN  SelectSeq(f, Keep)

\* DataFrame.tail(n): the last n rows (none when n = 0)
FrameTail(f, n) ==
    IF n >= Len(f) THEN f ELSE SubSeq(f, Len(f) - n + 1, Len(f))

\* px_df / px_df.shift(1): row i divided by row i-1, row 1 by a missing row
Ratios(f) ==
    [i \in 1 .. Len(f) |->
        [date |-> f[i].date,
         row  |-> [t \in tickers |->
                     IF i = 1 THEN NaN ELSE FDiv(f[i].row[t], f[i-1].row[t])]]]

\* np.log applied to every cell
LogFrame(f) ==
    [i \in 1 .. Len(f) |->
        [date |-> f[i].date, row |-> [t \in tickers |-> FLog(f[i].row[t])]]]

\* sum of column t over rows lo .. hi of f (halving keeps the evaluation shallow)
RECURSIVE ColSum(_, _, _, _)
ColSum(f, t, lo, hi) ==
    IF lo > hi THEN Num(0)
    ELSE IF lo = hi THEN f[lo].row[t]
    ELSE LET m == (lo + hi) \div 2
         IN  FAdd(ColSum(f, t, lo, m), ColSum(f, t, m + 1, hi))

\* the running sum left out: every row keeps its own return
CumSumForgotten(f) == f

\* DataFrame.cumsum(): running column sums
CumSum(f) ==
    [i \in 1 .. Len(f) |->
        [date |-> f[i].date, row |-> [t \in tickers |-> ColSum(f, t, 1, i)]]]

\* the largest index label, max(px.index)
MaxDate(f) ==
    CHOOSE d \in {f[i].date : i \in 1 .. Len(f)} :
        \A i \in 1 .. Len(f) : f[i].date <= d

(* ---------------------------------------------------- fetch_daily_closes *)
\* What yf.download may answer: the tickers it has a column for, and for
\* every calendar date one row of closes (a missing bar is NaN).  The index
\* is ascending and free of duplicates, as the provider delivers it.
Frame(n, c) == [i \in 1 .. n |-> [date |-> i, row |-> c[i]]]

\* an answer whose closes vary
PriceAnswer(c) == [cols |-> tickers, rows |-> Frame(MaxDates, c)]
\* an answer in which only the presence of the bars varies
CalendarAnswer(c) == [cols |-> tickers, rows |-> Frame(MaxCalendar, c)]
\* an answer of n rows, a year of history or more
LongAnswer(n, c) ==
    [cols |-> tickers,
     rows |-> [i \in 1 .. n |-> [date |-> i, row |-> LongRow(c, i)]]]
\* an answer without a column for ticker t
MissingColumnAnswer(t) ==
    [cols |-> tickers \ {t},
     rows |-> Frame(MaxDates, [i \in Dates |-> [u \in tickers |-> NaN]])]

\* closes[t] = df[t]["Close"], falling back to df["Close"][t]: both raise
\* KeyError for a ticker the answer has no column for
ClosesRaise(d) == \E t \in tickers : t \notin d.cols

\* pd.DataFrame(closes).dropna(how="any")
AlignedPx(d) == DropNa(d.rows)

(* -------------------------------------------------------- compute_metrics *)
\* rets = np.log(px_df / px_df.shift(1)).dropna()
Rets(p) == DropNa(LogFrame(Ratios(p)))

IndexLevel(x) == FScale(FExp(x), 100)

\* cum_df = (rets.cumsum()).apply(np.exp) * 100.0
CumDf(r) ==
    LET c == CumSum(r)
    IN  [i \in 1 .. Len(c) |->
            [date |-> c[i].date, row |-> [t \in tickers |-> IndexLevel(c[i].row[t])]]]

Min(a, b) == IF a < b THEN a ELSE b

\* window = min(252, len(rets))
Window(r) == Min(TRADING_DAYS, Len(r))

\* the base taken `window` rows before the last row, px_df.iloc[-1 - window]
BaseRowBefore(p, w) ==
    IF w = 0 \/ Len(p) = 0 THEN 0
    ELSE IF w >= Len(p) - 1 THEN 1 ELSE Len(p) - w

\* the tail taken as px_df[-window:], which is the whole frame for window = 0
BaseRowSlice(p, w) ==
    IF Len(p) = 0 THEN 0
    ELSE IF w = 0 \/ w >= Len(p) THEN 1 ELSE Len(p) - w + 1

\* position in px_df of px_df.tail(window).iloc[0]; tail(0) is empty and
\* iloc[0] on it raises IndexError (position 0 stands for that)
BaseRow(p, w) ==
    IF w = 0 \/ Len(p) = 0 THEN 0
    ELSE IF w >= Len(p) THEN 1 ELSE Len(p) - w + 1

\* total_return_1y = (px_df.tail(1) / px_df.tail(window).iloc[0] - 1.0).iloc[0]
TotalReturn(p, w) ==
    [t \in tickers |->
        FAdd(FDiv(p[Len(p)].row[t], p[BaseRow(p, w)].row[t]), Num(-1))]

FMul(a, b) == IF IsNum(a) /\ IsNum(b) THEN Rat(a.n * b.n, a.d * b.d) ELSE NaN

\* the frame with every value squared
Squares(f) ==
    [i \in 1 .. Len(f) |->
        [date |-> f[i].date,
         row  |-> [t \in tickers |-> FMul(f[i].row[t], f[i].row[t])]]]

\* Series.var(ddof=1) of column t: nan for fewer than two observations and
\* for a column holding an infinity, else (n*sum(x^2) - sum(x)^2) / (n*(n-1))
SampleVar(f, t) ==
    LET n  == Len(f)
        s  == ColSum(f, t, 1, n)
        q  == ColSum(Squares(f), t, 1, n)
    IN  IF n < 2 \/ \E i \in 1 .. n : ~IsNum(f[i].row[t]) THEN NaN
        ELSE FDiv(FAdd(FScale(q, n), FScale(FMul(s, s), -1)), Num(n * (n - 1)))

\* ann_vol_1y = rets_1y.std() * math.sqrt(252), kept as its square
\* (std^2 * 252, in units of (ln 2)^2): the square root is not rational
AnnVolSq(r, w) ==
    [t \in tickers |-> FScale(SampleVar(FrameTail(r, w), t), TRADING_DAYS)]

(* --------------------------------------------------- build_dashboard_html *)
\* the data the page embeds: the index traces, the bar chart and summary
\* table values per ticker, and the as-of date
DashboardHtml(cum, tr, vol, last_date) ==
    [traces |-> cum, vols |-> vol, table |-> [t \in tickers |-> <<tr[t], vol[t]>>],
     last_date |-> last_date]

NoFrame == <<>>
NoSeries == [t \in tickers |-> NaN]
NoHtml == [traces |-> <<>>, vols |-> NoSeries,
           table |-> [t \in tickers |-> <<NaN, NaN>>], last_date |-> 0]
NoDownload == [cols |-> {}, rows |-> <<>>]

(* ------------------------------------------------------------------- main *)
\* the emptiness test dropped
PxEmptyUnchecked(p) == FALSE

\* px.empty
PxEmpty(p) == Len(p) = 0

\* the file opened right after the fetch, ahead of the checks
WriteAfterFetch == "fetched"

\* the point of main at which index.html is opened: after build_dashboard_html
WriteAfter == "rendered"

Init ==
    /\ pc = "start"
    /\ df = NoDownload
    /\ px = NoFrame
    /\ rets = NoFrame
    /\ cum_df = NoFrame
    /\ window = 0
    /\ total_return_1y = NoSeries
    /\ ann_vol_1y = NoSeries
    /\ html = NoHtml
    /\ index_html = "absent"
    /\ err = "none"
    /\ stages = <<>>

\* yf.download returns an answer
Download ==
    /\ pc = "start"
    /\ \/ \E c \in [Dates -> RowSet] : df' = PriceAnswer(c)
       \/ \E c \in [1 .. MaxCalendar -> CalendarRowSet] : df' = CalendarAnswer(c)
       \/ \E n \in TRADING_DAYS .. TRADING_DAYS + MaxBeyondYear :
             \E c \in Cycles : df' = LongAnswer(n, c)
       \/ \E t \in tickers : df' = MissingColumnAnswer(t)
    /\ pc' = "downloaded"
    /\ stages' = Append(stages, "fetch")
    /\ UNCHANGED <<px, rets, cum_df, window, total_return_1y, ann_vol_1y,
                   html, index_html, err>>

\* yf.download raises (network, authentication, rate limit)
DownloadFail ==
    /\ pc = "start"
    /\ pc' = "failed"
    /\ err' = "DownloadError"
    /\ UNCHANGED <<df, px, rets, cum_df, window, total_return_1y, ann_vol_1y,
                   html, index_html, stages>>

\* the rest of fetch_daily_closes: collect the close columns, drop the dates
\* some ticker misses
Normalize ==
    /\ pc = "downloaded"
    /\ IF ClosesRaise(df)
       THEN /\ pc' = "failed"
            /\ err' = "KeyError"
            /\ UNCHANGED <<px, stages>>
       ELSE /\ px' = AlignedPx(df)
            /\ pc' = "fetched"
            /\ stages' = Append(stages, "align")
            /\ err' = err
    /\ UNCHANGED <<df, rets, cum_df, window, total_return_1y, ann_vol_1y,
                   html, index_html>>

\* if px.empty: raise RuntimeError(...)
CheckEmpty ==
    /\ pc = "fetched"
    /\ IF PxEmpty(px)
       THEN /\ pc' = "failed"
            /\ err' = "RuntimeError"
       ELSE /\ pc' = "checked"
            /\ err' = err
    /\ UNCHANGED <<df, px, rets, cum_df, window, total_return_1y, ann_vol_1y,
                   html, index_html, stages>>

\* cum, total_ret_1y, ann_vol = compute_metrics(px)
ComputeMetrics ==
    /\ pc = "checked"
    /\ LET r == Rets(px)
           w == Window(r)
       IN  IF BaseRow(px, w) = 0
           THEN /\ pc' = "failed"
                /\ err' = "IndexError"
                /\ UNCHANGED <<rets, cum_df, window, total_return_1y,
                               ann_vol_1y, stages>>
           ELSE /\ rets' = r
                /\ cum_df' = CumDf(r)
                /\ window' = w
                /\ total_return_1y' = TotalReturn(px, w)
                /\ ann_vol_1y' = AnnVolSq(r, w)
                /\ pc' = "computed"
                /\ stages' = Append(stages, "compute")
                /\ err' = err
    /\ UNCHANGED <<df, px, html, index_html>>

\* last_date = max(px.index); html = build_dashboard_html(...)
BuildDashboardHtml ==
    /\ pc = "computed"
    /\ html' = DashboardHtml(cum_df, total_return_1y, ann_vol_1y, MaxDate(px))
    /\ pc' = "rendered"
    /\ stages' = Append(stages, "render")
    /\ UNCHANGED <<df, px, rets, cum_df, window, total_return_1y, ann_vol_1y,
                   index_html, err>>

\* with open("index.html", "w") as f: f.write(html)
WriteIndexHtml ==
    /\ pc = WriteAfter
    /\ index_html' = "written"
    /\ pc' = "done"
    /\ stages' = Append(stages, "write")
    /\ UNCHANGED <<df, px, rets, cum_df, window, total_return_1y, ann_vol_1y,
                   html, err>>

Next ==
    \/ Download
    \/ DownloadFail
    \/ Normalize
    \/ CheckEmpty
    \/ ComputeMetrics
    \/ BuildDashboardHtml
    \/ WriteIndexHtml

Spec == Init /\ [][Next]_vars

(* ----------------------------------------------------------------- claims *)
\* compute_metrics has returned its three results
Returned == pc \in {"computed", "rendered", "done"}
\* fetch_daily_closes has returned px
Aligned == pc \notin {"start", "downloaded"} /\ err \notin {"DownloadError", "KeyError"}

N == Len(px)
Positive(f) == \A i \in 1 .. Len(f) : \A t \in tickers : IsNum(f[i].row[t]) /\ f[i].row[t].n > 0
NonPositiveCell(f) == \E i \in 1 .. Len(f) : \E t \in tickers : IsNum(f[i].row[t]) /\ f[i].row[t].n <= 0
Column(f, t) == [i \in 1 .. Len(f) |-> f[i].row[t]]
FrameDates(f) == {f[i].date : i \in 1 .. Len(f)}
\* the dates on which ticker t has a bar in the downloaded table
BarDates(t) == {df.rows[i].date : i \in {j \in 1 .. Len(df.rows) : ~IsNaN(df.rows[j].row[t])}}
CommonDates == {d \in FrameDates(df.rows) : \A t \in tickers : d \in BarDates(t)}
SimpleReturn(last, base) == FAdd(FDiv(last, base), Num(-1))

\* C1: for every dense price table with N >= 2 rows and every ticker, the
\* reported total return is price[last] / price[last - window] - 1 with
\* window = min(252, N-1): the base is the row `window` positions before the
\* last row.  (Stated for tables of positive prices, where the return
\* table has N-1 rows and window = min(252, N-1) is the window the code uses.)
C1_BaseIsWindowRowsBeforeLast ==
    (Returned /\ N >= 2 /\ Positive(px)) =>
        \A t \in tickers :
            total_return_1y[t] =
                SimpleReturn(px[N].row[t], px[N - Min(TRADING_DAYS, N - 1)].row[t])

\* C2: the reported total return is price[-1] / price[-window] - 1, the base
\* being the window-th row counted from the end (last row included); for the
\* price column [100, 200, 400] with window = 2 it is exactly 1.
C2_BaseIsWindowthRowFromEnd ==
    Returned =>
        \A t \in tickers :
            /\ window >= 1 /\ window <= N
            /\ total_return_1y[t] =
                   SimpleReturn(px[N].row[t], px[N - window + 1].row[t])
            /\ (window = 2 /\ Column(px, t) = <<Num(100), Num(200), Num(400)>>)
                   => total_return_1y[t] = Num(1)

C2_Witness ==
    /\ Returned
    /\ window = 2
    /\ Column(px, "AAPL") = <<Num(100), Num(200), Num(400)>>
    /\ total_return_1y["AAPL"] = Num(1)

\* C3: a run whose aligned price table has exactly one row ends in a fatal
\* error raised inside compute_metrics: compute_metrics yields no result,
\* main does not go on to render, and index.html is not written.
C3_OneRowIsFatal ==
    (Aligned /\ N = 1) =>
        /\ pc \in {"fetched", "checked", "failed"}
        /\ pc = "failed" => err = "IndexError"
        /\ ~Returned
        /\ rets = NoFrame /\ cum_df = NoFrame
        /\ total_return_1y = NoSeries /\ ann_vol_1y = NoSeries
        /\ "compute" \notin {stages[i] : i \in 1 .. Len(stages)}
        /\ index_html = "absent"

C3_Witness == Aligned /\ N = 1 /\ pc = "failed" /\ err = "IndexError" /\ index_html = "absent"

\* C4: for every dense price table with N >= 2 rows, the log-return table
\* has exactly N-1 rows, carrying the dates of rows 2..N in order, one column
\* per ticker, and no missing value.
C4_ReturnTableShape ==
    (Returned /\ N >= 2) =>
        /\ Len(rets) = N - 1
        /\ \A i \in 1 .. Len(rets) :
              /\ rets[i].date = px[i + 1].date
              /\ DOMAIN rets[i].row = tickers
              /\ \A t \in tickers : ~IsNaN(rets[i].row[t])

\* C5: when any cell of the price table is zero or negative the run is
\* rejected with a fatal error: compute_metrics returns no metrics and no
\* dashboard is produced.
C5_NonPositiveRejected ==
    (Aligned /\ NonPositiveCell(px)) =>
        /\ ~Returned
        /\ html = NoHtml
        /\ index_html = "absent"

\* C6: the aligned table's dates are exactly the dates on which every ticker
\* has a bar; its rows are strictly increasing by date, and every cell is
\* present and is the downloaded close of that ticker and date.
C6_AlignerInnerJoin ==
    Aligned =>
        /\ FrameDates(px) = CommonDates
        /\ \A i \in 1 .. N - 1 : px[i].date < px[i + 1].date
        /\ \A i \in 1 .. N :
              /\ DOMAIN px[i].row = tickers
              /\ \A t \in tickers :
                    /\ ~IsNaN(px[i].row[t])
                    /\ \E j \in 1 .. Len(df.rows) :
                          df.rows[j].date = px[i].date /\ df.rows[j].row[t] = px[i].row[t]

C6_Witness ==
    /\ Aligned
    /\ BarDates("AAPL") = {1, 2, 3}
    /\ BarDates("MSFT") = {2, 3, 4}
    /\ FrameDates(px) = {2, 3}
    /\ N = 2

\* C7: if some ticker shares no date with the rest of the universe the run
\* ends in a fatal error before compute_metrics and before any file write.
C7_NoOverlapIsFatal ==
    (Aligned /\ \E t \in tickers : \A d \in BarDates(t) : \E u \in tickers : d \notin BarDates(u)) =>
        /\ pc \in {"fetched", "failed"}
        /\ pc = "failed" => err = "RuntimeError"
        /\ stages = <<"fetch", "align">>
        /\ rets = NoFrame /\ html = NoHtml
        /\ index_html = "absent"

C7_Witness ==
    /\ pc = "failed"
    /\ err = "RuntimeError"
    /\ BarDates("AAPL") # {}
    /\ BarDates("MSFT") # {}
    /\ BarDates("AAPL") \cap BarDates("MSFT") = {}
    /\ index_html = "absent"

StageOrder == <<"fetch", "align", "compute", "render", "write">>
\* some ticker's fetch failed or returned no data
TickerWithoutData ==
    \E t \in tickers : t \notin df.cols \/ BarDates(t) = {}

C8_State ==
    /\ stages = SubSeq(StageOrder, 1, Len(stages))
    /\ index_html = "written" => (stages = StageOrder /\ err = "none" /\ pc = "done")
    /\ pc = "failed" => (index_html = "absent" /\ err # "none")
    /\ err # "none" => pc = "failed"
    /\ (pc # "start" /\ TickerWithoutData) =>
          (index_html = "absent" /\ Len(stages) <= 2 /\ pc \in {"downloaded", "fetched", "failed"})

\* C8: index.html is written only after fetch, align, compute_metrics and
\* build_dashboard_html have completed, in that order; once a stage has
\* failed nothing more happens, so the file is never written, and a run in
\* which a ticker's fetch failed or returned no data never reaches
\* compute_metrics or the write.
C8_WriteOnlyAfterFullPipeline ==
    /\ []C8_State
    /\ [][pc # "failed"]_vars

C8_Witness == pc = "done" /\ index_html = "written" /\ stages = StageOrder /\ err = "none"

Constant(f) ==
    \A i \in 1 .. Len(f) : \A t \in tickers :
        IsNum(f[i].row[t]) /\ f[i].row[t].n > 0 /\ f[i].row[t] = f[1].row[t]

\* C9: for every constant price series with N >= 2 rows, all log returns
\* are 0, the cumulative index is 100 on every row, and the annualized
\* volatility is 0 (a number, not NaN), also for N = 2.
C9_ConstantSeries ==
    (Returned /\ N >= 2 /\ Constant(px)) =>
        /\ \A i \in 1 .. Len(rets) : \A t \in tickers : rets[i].row[t] = Num(0)
        /\ \A i \in 1 .. Len(cum_df) : \A t \in tickers : cum_df[i].row[t] = Num(100)
        /\ \A t \in tickers : ann_vol_1y[t] = Num(0)

\* C10: for strictly positive prices p[0..N-1], N >= 2, row i (0-based) of
\* the cumulative index is 100 * p[i+1] / p[0]; the index has the rows and
\* columns of the return table and compounds from the first return on.
C10_IndexRoundTrip ==
    (Returned /\ N >= 2 /\ Positive(px)) =>
        /\ Len(cum_df) = Len(rets)
        /\ Len(cum_df) = N - 1
        /\ \A i \in 1 .. Len(cum_df) :
              /\ cum_df[i].date = rets[i].date
              /\ DOMAIN cum_df[i].row = DOMAIN rets[i].row
              /\ \A t \in tickers :
                    cum_df[i].row[t] = Rat(100 * px[i + 1].row[t].n, px[1].row[t].n)

C10_Witness ==
    /\ Returned
    /\ Positive(px)
    /\ N = TRADING_DAYS + 2
    /\ SubSeq(Column(px, "AAPL"), 1, 4) = <<Num(100), Num(200), Num(400), Num(100)>>
    /\ cum_df[2].row["AAPL"] = Num(400)
    /\ cum_df[3].row["AAPL"] = Num(100)
    /\ cum_df[N - 1].row["AAPL"] = Num(200)

====
